---- MODULE Spec2Model ----
(***************************************************************************)
(* Model of src/src/SkillRadarDashboard.tsx: the SkillEditRow validator,  *)
(* the SkillRadarDashboard state (skills, selectedSkill, updatingIdx and   *)
(* the 400 ms timers), the derived chart data and the exportPDF layout.    *)
(*                                                                         *)
(* Numbers.  A JS number is a record [nan, v]; v counts units of 1/Scale,  *)
(* Scale = 10^(MaxLen-1), which represents exactly every value a raw input *)
(* of at most MaxLen characters can denote.  The digits of the modelled    *)
(* alphabet are 0 and 1, so no value is a decimal tie of toFixed(2).       *)
(* Strings.  A raw input is a sequence of one-character strings.           *)
(* Left out: darkMode, the load error message and SkillEditRow's           *)
(* inputValue, display state that no handler modelled here reads.          *)
(***************************************************************************)
EXTENDS Integers, Sequences, FiniteSets, TLC

VARIABLES
    loading,        \* useState<boolean>(true)
    skills,         \* useState<Skill[]>([])
    selectedSkill,  \* useState<Skill | null>(null): <<>> is null, <<s>> a Skill object
    updatingIdx,    \* useState<number | null>(null): 0 is null, rows are 1..Len(skills)
    timers,         \* outstanding setTimeout callbacks, oldest first; an entry is the
                    \* row whose edit started it (the callback itself ignores it)
    rowError,       \* SkillEditRow's error state, per row
    radarData,      \* the last render's radarData
    trendData,      \* the last render's trendData
    lastCall,       \* the last direct call of handleSkillScoreChange (history)
    pc,             \* exportPDF: "idle", "sections" or "saved"
    doc,            \* exportPDF: the jsPDF document (drawn text, font, colour, pages)
    y,              \* exportPDF: the cursor
    secIdx          \* exportPDF: how many detail sections are complete

vars == <<loading, skills, selectedSkill, updatingIdx, timers, rowError,
          radarData, trendData, lastCall, pc, doc, y, secIdx>>

pdfVars == <<pc, doc, y, secIdx>>

-----------------------------------------------------------------------------
(* Bounds *)

MaxLen == 4
MaxTimers == 2

-----------------------------------------------------------------------------
(* Numbers *)

RECURSIVE Pow10(_)
Pow10(n) == IF n = 0 THEN 1 ELSE 10 * Pow10(n - 1)

Scale == Pow10(MaxLen - 1)

Num(v) == [nan |-> FALSE, v |-> v]
NaN == [nan |-> TRUE, v |-> 0]

isNaN(x) == x.nan
Lt(a, b) == ~a.nan /\ ~b.nan /\ a.v < b.v
Gt(a, b) == ~a.nan /\ ~b.nan /\ a.v > b.v

\* Math.max / Math.min: NaN if either argument is NaN
MathMax(a, b) == IF a.nan \/ b.nan THEN NaN ELSE IF a.v >= b.v THEN a ELSE b
MathMin(a, b) == IF a.nan \/ b.nan THEN NaN ELSE IF a.v <= b.v THEN a ELSE b

Sub(a, b) == IF a.nan \/ b.nan THEN NaN ELSE Num(a.v - b.v)

\* +(x.toFixed(2)): the nearest multiple of 0.01; an exact tie takes the larger n
ToFixed2(x) ==
    IF x.nan THEN NaN
    ELSE LET cent == Scale \div 100
             lo == (x.v \div cent) * cent      \* \div floors, also below zero
         IN IF 2 * (x.v - lo) >= cent THEN Num(lo + cent) ELSE Num(lo)

Zero == Num(0)
One == Num(Scale)
Ten == Num(10 * Scale)

\* a literal with one decimal, such as 7.5 = Tenths(75)
Tenths(n) == Num(n * (Scale \div 10))

-----------------------------------------------------------------------------
(* fetchSkills *)

Snippet(text, nlines) == [text |-> text, nlines |-> nlines]

MockSkills == <<
    [skill |-> "Algorithms", score |-> Tenths(75),
     code_snippets |-> <<Snippet("function add(a, b) { return a + b; }", 1)>>,
     timestamps |-> <<"2025-08-06T13:45Z", "2025-08-06T14:30Z">>,
     iteration_depth |-> <<3>>, ai_flagged |-> "true"],
    [skill |-> "Data Structures", score |-> Tenths(82),
     code_snippets |-> <<Snippet("class Stack { constructor() { this.items = []; } }", 1)>>,
     timestamps |-> <<"2025-08-06T11:00Z", "2025-08-06T12:30Z">>,
     iteration_depth |-> <<2>>, ai_flagged |-> "false"],
    [skill |-> "System Design", score |-> Tenths(51),
     code_snippets |-> <<>>,
     timestamps |-> <<>>,
     iteration_depth |-> <<4>>, ai_flagged |-> "true"] >>

fetchSkills == MockSkills

-----------------------------------------------------------------------------
(* SkillEditRow.handleInput: the regular expression and Number() *)

Digits == {"0", "1"}
Chars == Digits \cup {".", "-", "a"}

RECURSIVE StringsOfLen(_)
StringsOfLen(n) ==
    IF n = 0 THEN {<<>>}
    ELSE {Append(s, c) : s \in StringsOfLen(n - 1), c \in Chars}

Strings == UNION {StringsOfLen(n) : n \in 0..MaxLen}

\* the first position at or after i that holds no digit (\d* is greedy)
RECURSIVE SkipDigits(_, _)
SkipDigits(s, i) ==
    IF i <= Len(s) /\ s[i] \in Digits THEN SkipDigits(s, i + 1) ELSE i

\* /^\d*\.?\d*$/.test(val)
RegexTest(val) ==
    LET a == SkipDigits(val, 1)
        b == IF a <= Len(val) /\ val[a] = "." THEN a + 1 ELSE a
        c == SkipDigits(val, b)
    IN c = Len(val) + 1

DigitVal(c) == IF c = "1" THEN 1 ELSE 0

\* the digits s[i..j-1] read as a decimal integer
RECURSIVE DigitsVal(_, _, _)
DigitsVal(s, i, j) ==
    IF j <= i THEN 0 ELSE 10 * DigitsVal(s, i, j - 1) + DigitVal(s[j - 1])

\* Number(val), for the strings the regular expression lets through:
\* "" is 0, a string with no digit (".") is NaN, else the decimal value
Number(val) ==
    LET a == SkipDigits(val, 1)
        b == IF a <= Len(val) /\ val[a] = "." THEN a + 1 ELSE a
        c == SkipDigits(val, b)
    IN IF Len(val) = 0 THEN Zero
       ELSE IF (a - 1) + (c - b) = 0 THEN NaN
       ELSE Num(DigitsVal(val, 1, a) * Scale
                + DigitsVal(val, b, c) * (Scale \div Pow10(c - b)))

NoError == ""
NumbersOnly == "Numbers only"
OutOfRange == "Value must be 0-10"

-----------------------------------------------------------------------------
(* Derived chart data, computed by every render *)

\* TrendPoint without Math.max(0, ...)
TrendPointNoClamp(item) ==
    [skill |-> item.skill,
     first |-> ToFixed2(Sub(item.score, One)),
     last |-> ToFixed2(item.score)]

RadarPoint(item) == [skill |-> item.skill, score |-> item.score]

TrendPoint(item) ==
    [skill |-> item.skill,
     first |-> MathMax(Zero, ToFixed2(Sub(item.score, One))),
     last |-> ToFixed2(item.score)]

RadarData(sk) == [i \in 1..Len(sk) |-> RadarPoint(sk[i])]
TrendData(sk) == [i \in 1..Len(sk) |-> TrendPoint(sk[i])]

\* a render that recomputes radarData alone
RenderRadarOnly(sk) ==
    /\ radarData' = RadarData(sk)
    /\ UNCHANGED trendData

\* a state update re-renders the component
Render(sk) ==
    /\ radarData' = RadarData(sk)
    /\ trendData' = TrendData(sk)

-----------------------------------------------------------------------------
(* SkillRadarDashboard *)

Null == 0

\* no document yet
NoDoc ==
    [ops |-> <<>>, pages |-> 0, font |-> "normal", size |-> 0, color |-> "black",
     saved |-> FALSE, ends |-> <<>>]

Init ==
    /\ loading = TRUE
    /\ skills = <<>>
    /\ selectedSkill = <<>>
    /\ updatingIdx = Null
    /\ timers = <<>>
    /\ rowError = <<>>
    /\ radarData = <<>>
    /\ trendData = <<>>
    /\ lastCall = <<>>
    /\ pc = "idle"
    /\ doc = NoDoc
    /\ y = 0
    /\ secIdx = 0

\* useEffect(..., []): fetchSkills resolves, setSkills(data), setLoading(false);
\* the rows mount with error ""
Load ==
    /\ loading
    /\ skills' = fetchSkills
    /\ loading' = FALSE
    /\ rowError' = [i \in 1..Len(fetchSkills) |-> NoError]
    /\ Render(skills')
    /\ UNCHANGED <<selectedSkill, updatingIdx, timers, lastCall, pdfVars>>

\* an updater that maps the new score over every record
SetScoreAll(prev, idx, newScore) ==
    [i \in 1..Len(prev) |->
        [prev[i] EXCEPT !.score = MathMax(Zero, MathMin(Ten, newScore))]]

\* the updater passed to setSkills
SetScore(prev, idx, newScore) ==
    [prev EXCEPT ![idx] = [@ EXCEPT !.score = MathMax(Zero, MathMin(Ten, newScore))]]

\* the guard without its upper bound
RejectedNoUpper(newScore) == isNaN(newScore) \/ Lt(newScore, Zero)

\* the guard of handleSkillScoreChange
Rejected(newScore) == isNaN(newScore) \/ Lt(newScore, Zero) \/ Gt(newScore, Ten)

\* handleSkillScoreChange(idx, newScore), and the render that follows
handleSkillScoreChange(idx, newScore) ==
    IF Rejected(newScore)
    THEN UNCHANGED <<skills, updatingIdx, timers, radarData, trendData>>
    ELSE /\ updatingIdx' = idx
         /\ skills' = SetScore(skills, idx, newScore)
         /\ timers' = Append(timers, idx)
         /\ Render(skills')

\* the rows are rendered once loading is over and skills is not empty;
\* a disabled input takes no input
RowEnabled(idx) ==
    /\ ~loading
    /\ idx \in 1..Len(skills)
    /\ updatingIdx # idx

\* SkillEditRow.handleInput(val) of row idx
handleInput(idx, val) ==
    /\ RowEnabled(idx)
    /\ Len(timers) < MaxTimers
    /\ IF ~RegexTest(val)
       THEN /\ rowError' = [rowError EXCEPT ![idx] = NumbersOnly]
            /\ UNCHANGED <<skills, updatingIdx, timers, radarData, trendData>>
       ELSE LET num == Number(val)
            IN IF isNaN(num) \/ Lt(num, Zero) \/ Gt(num, Ten)
               THEN /\ rowError' = [rowError EXCEPT ![idx] = OutOfRange]
                    /\ UNCHANGED <<skills, updatingIdx, timers, radarData, trendData>>
               ELSE /\ rowError' = [rowError EXCEPT ![idx] = NoError]
                    /\ handleSkillScoreChange(idx, num)
    /\ UNCHANGED <<loading, selectedSkill, lastCall, pdfVars>>

\* the callback of setTimeout(() => setUpdatingIdx(null), 400); equal delays
\* fire in the order they were set
TimerFire ==
    /\ timers # <<>>
    /\ timers' = Tail(timers)
    /\ updatingIdx' = Null
    /\ UNCHANGED <<loading, skills, selectedSkill, rowError, radarData, trendData,
                   lastCall, pdfVars>>

\* onClick={() => setSelectedSkill(d)} and handleSkillButtonKeyDown
SelectSkill(idx) ==
    /\ ~loading
    /\ idx \in 1..Len(skills)
    /\ selectedSkill' = <<skills[idx]>>
    /\ UNCHANGED <<loading, skills, updatingIdx, timers, rowError, radarData,
                   trendData, lastCall, pdfVars>>

\* onClick={() => setSelectedSkill(null)}
CloseDetail ==
    /\ selectedSkill # <<>>
    /\ selectedSkill' = <<>>
    /\ UNCHANGED <<loading, skills, updatingIdx, timers, rowError, radarData,
                   trendData, lastCall, pdfVars>>

\* the raw inputs typed in the dashboard specification
UiInputs == { <<>>, <<".">>, <<"1", ".", "1">>, <<"1", "1">>, <<"-", "1">>, <<"a">> }

Next ==
    \/ Load
    \/ \E idx \in 1..Len(skills), val \in UiInputs : handleInput(idx, val)
    \/ TimerFire
    \/ \E idx \in 1..Len(skills) : SelectSkill(idx)
    \/ CloseDetail

Spec == Init /\ [][Next]_vars

-----------------------------------------------------------------------------
(* exportPDF: the jsPDF document *)

\* new jsPDF(): one page
NewDoc == [NoDoc EXCEPT !.pages = 1]

setFontSize(d, n) == [d EXCEPT !.size = n]
setFont(d, style) == [d EXCEPT !.font = style]
setTextColor(d, c) == [d EXCEPT !.color = c]
addPage(d) == [d EXCEPT !.pages = @ + 1]

\* doc.text(t, x, yy): drawn on the current (last) page in the current font,
\* size and colour; sec is the detail section drawing it (0: the title block)
text(d, sec, t, x, yy) ==
    [d EXCEPT !.ops = Append(@, [sec |-> sec, kind |-> t.kind, name |-> t.name,
                                 na |-> t.na, val |-> t.val, x |-> x, y |-> yy,
                                 page |-> d.pages, font |-> d.font, size |-> d.size,
                                 color |-> d.color])]

T(kind, name, na, val) == [kind |-> kind, name |-> name, na |-> na, val |-> val]

\* new Date(t).toLocaleString()
toLocaleString(t) == <<"locale", t>>

\* doc.splitTextToSize(code, 180): the wrapped lines of a snippet
splitTextToSize(code) == [j \in 1..code.nlines |-> <<code.text, j>>]

HasTimestamps(item) == Len(item.timestamps) > 0
HasDepth(item) == item.iteration_depth # <<>>
\* a flag test that takes an absent ai_flagged for true
IsFlaggedUnlessFalse(item) == item.ai_flagged # "false"
IsFlagged(item) == item.ai_flagged = "true"
HasSnippets(item) == Len(item.code_snippets) > 0

\* item.code_snippets.forEach(code => lines.forEach(line => ...)): all wrapped
\* lines, in order
RECURSIVE SnippetLines(_, _)
SnippetLines(snips, k) ==
    IF k > Len(snips) THEN <<>>
    ELSE splitTextToSize(snips[k]) \o SnippetLines(snips, k + 1)

LineH == 5

RECURSIVE DrawLines(_, _, _, _, _)
DrawLines(d, sec, lines, k, yy) ==
    IF k > Len(lines) THEN d
    ELSE DrawLines(text(d, sec, T("line", "", FALSE, lines[k]), 14, yy),
                   sec, lines, k + 1, yy + LineH)

\* the title and the score lines; the cursor ends at 25 + 8 N
RECURSIVE DrawScores(_, _, _, _)
DrawScores(d, radar, k, yy) ==
    IF k > Len(radar) THEN d
    ELSE DrawScores(text(d, 0, T("score", radar[k].skill, FALSE, <<radar[k].score>>), 10, yy),
                    radar, k + 1, yy + 8)

PageBreakY == 270
TopMargin == 15

\* the page-break test without the last-record exception
PageBreakNoLast(yy, idx, n) == yy > PageBreakY

\* y > 270 && idx < skills.length - 1, idx counted from 0
PageBreak(yy, idx, n) == yy > PageBreakY /\ idx < n - 1

\* the body of skills.forEach up to the page-break test: the document and cursor
DrawSection(d0, item, sec, y0) ==
    LET d1 == text(setFont(d0, "bold"), sec, T("header", item.skill, FALSE, <<>>), 10, y0)
        d2 == text(setFont(d1, "normal"), sec,
                   T("attempts", "", ~HasTimestamps(item),
                     [k \in 1..Len(item.timestamps) |-> toLocaleString(item.timestamps[k])]),
                   12, y0 + 6)
        d3 == text(d2, sec, T("depth", "", ~HasDepth(item), item.iteration_depth), 12, y0 + 12)
        y3 == y0 + 18
        d4 == IF IsFlagged(item)
              THEN setTextColor(text(setTextColor(d3, "red"), sec,
                                     T("ai", "", FALSE, <<>>), 12, y3), "black")
              ELSE d3
        y4 == IF IsFlagged(item) THEN y3 + 6 ELSE y3
        d5 == text(d4, sec, T("snippets", "", FALSE, <<>>), 12, y4)
        y5 == y4 + 6
        lines == SnippetLines(item.code_snippets, 1)
        d6 == IF HasSnippets(item)
              THEN DrawLines(d5, sec, lines, 1, y5)
              ELSE text(d5, sec, T("line", "", TRUE, <<>>), 14, y5)
        y6 == IF HasSnippets(item) THEN y5 + LineH * Len(lines) ELSE y5 + 6
    IN [doc |-> d6, y |-> y6 + 2]

\* exportPDF, lines 173-182: the title block
ExportTitle ==
    /\ pc = "idle"
    /\ ~loading
    /\ LET d1 == text(setFontSize(NewDoc, 18), 0, T("title", "", FALSE, <<>>), 10, 15)
       IN doc' = DrawScores(setFontSize(d1, 12), radarData, 1, 25)
    /\ y' = 25 + 8 * Len(radarData) + 5
    /\ secIdx' = 0
    /\ pc' = "sections"
    /\ UNCHANGED <<loading, skills, selectedSkill, updatingIdx, timers, rowError,
                   radarData, trendData, lastCall>>

\* exportPDF, lines 183-217: one iteration of skills.forEach
ExportSection ==
    /\ pc = "sections"
    /\ secIdx < Len(skills)
    /\ LET r == DrawSection(doc, skills[secIdx + 1], secIdx + 1, y)
           brk == PageBreak(r.y, secIdx, Len(skills))
           d == IF brk THEN addPage(r.doc) ELSE r.doc
       IN /\ doc' = [d EXCEPT !.ends = Append(@, [endY |-> r.y, broke |-> brk])]
          /\ y' = IF brk THEN TopMargin ELSE r.y
    /\ secIdx' = secIdx + 1
    /\ UNCHANGED <<pc, loading, skills, selectedSkill, updatingIdx, timers, rowError,
                   radarData, trendData, lastCall>>

\* exportPDF, line 218: doc.save
ExportSave ==
    /\ pc = "sections"
    /\ secIdx = Len(skills)
    /\ doc' = [doc EXCEPT !.saved = TRUE]
    /\ pc' = "saved"
    /\ UNCHANGED <<y, secIdx, loading, skills, selectedSkill, updatingIdx, timers,
                   rowError, radarData, trendData, lastCall>>

-----------------------------------------------------------------------------
(* exportPDF on every loaded collection of at most MaxSkills records *)

MaxSkills == 2
LongLines == 46

SkillNames == <<"Algorithms", "Data Structures", "System Design", "Testing", "Security">>

SnippetChoices ==
    { <<>>,
      <<Snippet("function add(a, b) { return a + b; }", 1), Snippet("long listing", LongLines)>> }

SkillShapes(i) ==
    [skill : {SkillNames[i]},
     score : {Tenths(75)},
     code_snippets : SnippetChoices,
     timestamps : { <<>>, <<"2025-08-06T13:45Z", "2025-08-06T14:30Z">> },
     iteration_depth : { <<>>, <<3>> },
     ai_flagged : {"true", "false", "undefined"}]

RECURSIVE Collections(_)
Collections(n) ==
    IF n = 0 THEN {<<>>}
    ELSE {Append(c, r) : c \in Collections(n - 1), r \in SkillShapes(n)}

InitPDF ==
    /\ loading = FALSE
    /\ skills \in UNION {Collections(n) : n \in 0..MaxSkills}
    /\ selectedSkill = <<>>
    /\ updatingIdx = Null
    /\ timers = <<>>
    /\ rowError = [i \in 1..Len(skills) |-> NoError]
    /\ radarData = RadarData(skills)
    /\ trendData = TrendData(skills)
    /\ lastCall = <<>>
    /\ pc = "idle"
    /\ doc = NoDoc
    /\ y = 0
    /\ secIdx = 0

NextPDF ==
    \/ ExportTitle
    \/ ExportSection
    \/ ExportSave

SpecPDF == InitPDF /\ [][NextPDF]_vars

-----------------------------------------------------------------------------
(* One edited row, every raw input of at most MaxLen characters *)

\* the rows other than idx are as they were loaded
OthersUntouched(idx) ==
    \A j \in 1..Len(skills) :
        j # idx => rowError[j] = NoError /\ skills[j] = fetchSkills[j]

TypeAnything ==
    \E idx \in 1..Len(skills), val \in Strings :
        /\ OthersUntouched(idx)
        /\ handleInput(idx, val)

NextValidate ==
    \/ Load
    \/ TypeAnything
    \/ TimerFire

SpecValidate == Init /\ [][NextValidate]_vars

-----------------------------------------------------------------------------
(* handleSkillScoreChange called with arbitrary numbers *)

Hundredths(n) == Num(n * (Scale \div 100))

CallScores ==
    {NaN, Hundredths(-100), Hundredths(-1), Zero, Ten, Hundredths(1001), Hundredths(1100)}

CallInputs == { <<>>, <<"1", "1">>, <<"a">> }

CallScoreChange(idx, newScore) ==
    /\ ~loading
    /\ Len(timers) < MaxTimers
    /\ handleSkillScoreChange(idx, newScore)
    /\ lastCall' = <<[idx |-> idx, newScore |-> newScore]>>
    /\ UNCHANGED <<loading, selectedSkill, rowError, pdfVars>>

NextCalls ==
    \/ Load
    \/ \E idx \in 1..Len(skills), newScore \in CallScores : CallScoreChange(idx, newScore)
    \/ \E idx \in 1..Len(skills), val \in CallInputs : handleInput(idx, val)
    \/ TimerFire

SpecCalls == Init /\ [][NextCalls]_vars

-----------------------------------------------------------------------------
(* One accepted edit of the loaded collection, for every score to three      *)
(* decimals that is no tie of toFixed(2)                                     *)

TrendScores ==
    {Num(k * (Scale \div 1000)) : k \in {j \in 0..10000 : j % 10 # 5}}

EditOnce(idx, newScore) ==
    /\ handleSkillScoreChange(idx, newScore)
    /\ UNCHANGED <<loading, selectedSkill, rowError, lastCall, pdfVars>>

EditLoaded ==
    /\ ~loading
    /\ skills = fetchSkills
    /\ timers = <<>>
    /\ \E idx \in 1..Len(skills), newScore \in TrendScores : EditOnce(idx, newScore)

NextTrend ==
    \/ Load
    \/ EditLoaded
    \/ TimerFire

SpecTrend == Init /\ [][NextTrend]_vars

-----------------------------------------------------------------------------
(* Properties *)

InRange(x) == ~x.nan /\ 0 <= x.v /\ x.v <= 10 * Scale

ScoresInRange == \A i \in 1..Len(skills) : InRange(skills[i].score)

RejectedCallKeepsSkills ==
    (lastCall' # lastCall /\ lastCall' # <<>> /\ ~InRange(lastCall'[1].newScore))
        => skills' = skills

\* C1: after the load and any sequence of handleInput and handleSkillScoreChange
\* calls (NaN, negative and above-10 arguments included) every score is in
\* [0, 10], and a handleSkillScoreChange call with NaN or a value outside
\* [0, 10] leaves the whole skills collection unchanged.
C1_ScoresStayInRange == []ScoresInRange /\ [][RejectedCallKeepsSkills]_vars

\* a rejected direct call on a record that an accepted call had set to the
\* bound 10, with a typed out-of-range value rejected on another row
C1_Witness ==
    /\ lastCall # <<>>
    /\ ~InRange(lastCall[1].newScore)
    /\ skills[lastCall[1].idx].score = Ten
    /\ \E j \in 1..Len(skills) :
        rowError[j] = OutOfRange /\ skills[j].score = fetchSkills[j].score

\* only digits and at most one decimal point
WellFormed(val) ==
    /\ \A k \in 1..Len(val) : val[k] \in Digits \cup {"."}
    /\ Cardinality({k \in 1..Len(val) : val[k] = "."}) <= 1

\* C2: handleInput rejects every raw input that is not made of digits and at
\* most one decimal point, and the empty string too: for such an input
\* onChange is not called and no stored score changes.
C2_UnfinishedInputKeepsScore ==
    [][\A idx \in 1..Len(skills), val \in Strings :
          ((val = <<>> \/ ~WellFormed(val)) /\ handleInput(idx, val))
              => skills' = skills]_vars

HasDigit(val) == \E k \in 1..Len(val) : val[k] \in Digits

\* a numeric string: an optional sign, digits and at most one decimal point,
\* at least one digit
Unsigned(val) == IF val # <<>> /\ val[1] = "-" THEN Tail(val) ELSE val
IsNumeric(val) == WellFormed(Unsigned(val)) /\ HasDigit(Unsigned(val))
NumericValue(val) ==
    LET n == Number(Unsigned(val))
    IN IF val[1] = "-" THEN Num(0 - n.v) ELSE n

\* C3: handleInput classifies every raw input: a numeric string with value in
\* [0, 10] succeeds, clears the error and stores exactly that value; a numeric
\* string with value outside [0, 10] fails with the out-of-range error; a
\* non-numeric string fails with the not-numeric error.
C3_Classification ==
    [][\A idx \in 1..Len(skills), val \in Strings :
          handleInput(idx, val) =>
              IF IsNumeric(val)
              THEN IF InRange(NumericValue(val))
                   THEN /\ rowError'[idx] = NoError
                        /\ skills'[idx].score = NumericValue(val)
                   ELSE rowError'[idx] = OutOfRange /\ skills' = skills
              ELSE rowError'[idx] = NumbersOnly /\ skills' = skills]_vars

SameButScore(a, b) ==
    /\ a.skill = b.skill
    /\ a.code_snippets = b.code_snippets
    /\ a.timestamps = b.timestamps
    /\ a.iteration_depth = b.iteration_depth
    /\ a.ai_flagged = b.ai_flagged

NamesOf(sk) == [i \in 1..Len(sk) |-> sk[i].skill]

EditChangesOneScore ==
    ~loading =>
        /\ Len(skills') = Len(skills)
        /\ \A i \in 1..Len(skills) : SameButScore(skills'[i], skills[i])
        /\ skills' # skills =>
             /\ updatingIdx' \in 1..Len(skills)
             /\ \A i \in 1..Len(skills) : i # updatingIdx' => skills'[i] = skills[i]

\* C4: an accepted handleSkillScoreChange(idx, v) changes only the score of
\* the record at idx: the number and order of the records, every other field
\* and every other record's score are unchanged, so the collection keeps the
\* load-time names in load-time order.
C4_OnlyOneScoreChanges ==
    /\ [](~loading => NamesOf(skills) = NamesOf(fetchSkills))
    /\ [][EditChangesOneScore]_vars

\* the second record edited, the others as loaded
C4_Witness ==
    /\ ~loading
    /\ skills[2].score # fetchSkills[2].score
    /\ updatingIdx = 2
    /\ skills[1] = fetchSkills[1]
    /\ skills[3] = fetchSkills[3]

\* x is the multiple of 0.01 nearest to s
NearestCent(x, s) ==
    /\ ~x.nan /\ ~s.nan
    /\ x.v % (Scale \div 100) = 0
    /\ 2 * (x.v - s.v) <= Scale \div 100
    /\ 2 * (s.v - x.v) <= Scale \div 100

\* C5: in every reachable state radarData and trendData hold one point per
\* record of skills, in the order of skills, the i-th radar point has the
\* i-th record's current name and score and the i-th trend point its name and
\* current score to two decimals; both are empty while skills is empty.
C5_ViewsFollowSkills ==
    /\ Len(radarData) = Len(skills)
    /\ Len(trendData) = Len(skills)
    /\ \A i \in 1..Len(skills) :
        /\ radarData[i].skill = skills[i].skill
        /\ radarData[i].score = skills[i].score
        /\ trendData[i].skill = skills[i].skill
        /\ NearestCent(trendData[i].last, skills[i].score)

\* an edited record whose new score both views show
C5_Witness ==
    \E i \in 1..Len(skills) :
        /\ skills[i].score # fetchSkills[i].score
        /\ radarData[i].score = skills[i].score
        /\ trendData[i].last # ToFixed2(fetchSkills[i].score)

TwoDecimals(x) == ~x.nan /\ x.v % (Scale \div 100) = 0

\* C6: for every record whose score is in [0, 10] with at most two decimals,
\* the trend point's last is the score and its first is max(0, last - 1):
\* never negative, and 0 for every score in [0, 1].
C6_TrendPrevious ==
    \A i \in 1..Len(skills) :
        LET s == skills[i].score
            t == trendData[i]
        IN (InRange(s) /\ TwoDecimals(s)) =>
              /\ t.last = s
              /\ ~t.first.nan
              /\ t.first.v >= 0
              /\ t.first.v = (IF t.last.v - Scale > 0 THEN t.last.v - Scale ELSE 0)
              /\ (s.v <= Scale => t.first.v = 0)

\* a record edited to score 0: its trend point is drawn from 0 to 0
C6_Witness ==
    \E i \in 1..Len(skills) :
        /\ skills[i].score = Zero
        /\ trendData[i].last = Zero
        /\ trendData[i].first = Zero

SecOps(i) == SelectSeq(doc.ops, LAMBDA o : o.sec = i)
KindsOf(ops) == [k \in 1..Len(ops) |-> ops[k].kind]

RECURSIVE WrappedLineCount(_, _)
WrappedLineCount(snips, k) ==
    IF k = 0 THEN 0 ELSE snips[k].nlines + WrappedLineCount(snips, k - 1)

SectionKinds(item) ==
    <<"header", "attempts", "depth">>
    \o (IF item.ai_flagged = "true" THEN <<"ai">> ELSE <<>>)
    \o <<"snippets">>
    \o [k \in 1..(IF item.code_snippets = <<>> THEN 1
                  ELSE WrappedLineCount(item.code_snippets, Len(item.code_snippets)))
          |-> "line"]

TitleBlockDrawn ==
    LET o == SecOps(0)
    IN /\ Len(o) = 1 + Len(skills)
       /\ o[1].kind = "title"
       /\ \A k \in 1..Len(skills) :
            /\ o[k + 1].kind = "score"
            /\ o[k + 1].name = skills[k].skill
            /\ o[k + 1].val = <<skills[k].score>>

SectionDrawn(i) ==
    LET o == SecOps(i)
        item == skills[i]
    IN /\ KindsOf(o) = SectionKinds(item)
       /\ o[1].name = item.skill
       /\ o[1].font = "bold"
       /\ o[2].na <=> (item.timestamps = <<>>)
       /\ o[3].na <=> (item.iteration_depth = <<>>)
       /\ \A k \in 1..Len(o) :
            /\ o[k].color = (IF o[k].kind = "ai" THEN "red" ELSE "black")
            /\ o[k].kind = "line" => (o[k].na <=> (item.code_snippets = <<>>))
            /\ k > 1 => o[k].font = "normal"

\* C7: exportPDF on N records draws the title heading and N score lines, then
\* exactly N detail sections in collection order, each with its header, an
\* Attempts line (N/A iff no timestamps), an Iteration Depth line (N/A iff
\* absent), the red AI line iff ai_flagged is true with black restored before
\* any further text, "Code Snippets:" and the wrapped lines or a single N/A
\* line iff there are no snippets; for N = 0 only the title heading is drawn.
C7_ReportSections ==
    pc # "idle" =>
        /\ \A k \in 1..Len(doc.ops) :
             /\ doc.ops[k].sec \in 0..secIdx
             /\ k > 1 => doc.ops[k - 1].sec <= doc.ops[k].sec
        /\ TitleBlockDrawn
        /\ \A i \in 1..secIdx : SectionDrawn(i)
        /\ pc = "saved" => secIdx = Len(skills)
        /\ (pc = "saved" /\ skills = <<>>) => KindsOf(doc.ops) = <<"title">>

\* a saved report of two records: the first flagged, the second with no
\* timestamps, no iteration depth, no snippets and no ai_flagged field
C7_Witness ==
    /\ pc = "saved"
    /\ Len(skills) = 2
    /\ skills[1].ai_flagged = "true"
    /\ skills[1].code_snippets # <<>>
    /\ skills[2].ai_flagged = "undefined"
    /\ skills[2].timestamps = <<>>
    /\ skills[2].iteration_depth = <<>>
    /\ skills[2].code_snippets = <<>>

BreaksBefore(i) == Cardinality({k \in 1..(i - 1) : doc.ends[k].broke})

SectionOnOnePage(i) ==
    LET o == SecOps(i)
        last == o[Len(o)]
    IN /\ \A k \in 1..Len(o) : o[k].page = 1 + BreaksBefore(i)
       /\ doc.ends[i].endY = last.y + (IF last.na THEN 6 ELSE 5) + 2
       /\ doc.ends[i].broke <=> (doc.ends[i].endY > 270 /\ i < Len(skills))
       /\ i > 1 =>
            /\ o[1].y <= 270
            /\ o[1].y = (IF doc.ends[i - 1].broke THEN 15 ELSE doc.ends[i - 1].endY)

\* C8: exportPDF starts a page only between detail sections: after section
\* idx is drawn, addPage is called and y reset to 15 exactly when y > 270 and
\* idx is not the last record.  So a section's header and body are on one
\* page, every header but the first is drawn at y <= 270, the page count is 1
\* plus the number of non-last sections that ended past 270, and the last
\* record leaves no trailing blank page.
C8_PageBreaks ==
    pc # "idle" =>
        /\ Len(doc.ends) = secIdx
        /\ \A k \in 1..Len(doc.ops) : doc.ops[k].sec = 0 => doc.ops[k].page = 1
        /\ \A i \in 1..secIdx : SectionOnOnePage(i)
        /\ doc.pages = 1 + BreaksBefore(secIdx + 1)
        /\ doc.pages =
             1 + Cardinality({k \in 1..secIdx :
                                doc.ends[k].endY > 270 /\ k < Len(skills)})
        /\ pc = "saved" => doc.ops[Len(doc.ops)].page = doc.pages
        /\ secIdx < Len(skills) =>
             y = (IF secIdx > 0 /\ doc.ends[secIdx].broke THEN 15
                  ELSE IF secIdx > 0 THEN doc.ends[secIdx].endY
                  ELSE 25 + 8 * Len(skills) + 5)

\* a saved report of two records, both sections ending past 270: one break
\* between them and none after the last
C8_Witness ==
    /\ pc = "saved"
    /\ Len(skills) = 2
    /\ doc.ends[1].endY > 270
    /\ doc.ends[1].broke
    /\ doc.ends[2].endY > 270
    /\ doc.pages = 2

\* C9: a record whose edit was accepted stays marked pending (updatingIdx is
\* its index) until the timer started by that edit fires, whatever edits of
\* other rows and timers of other edits come in between.
C9_PendingUntilOwnTimer ==
    \A k \in 1..Len(timers) : updatingIdx = timers[k]

\* C10: whenever a skill is selected, the score the detail view shows is the
\* current score of the record of that name in skills.
C10_DetailShowsCurrentScore ==
    selectedSkill # <<>> =>
        \A i \in 1..Len(skills) :
            skills[i].skill = selectedSkill[1].skill
                => selectedSkill[1].score = skills[i].score

====
